---- MODULE Spec2Model ----
(***************************************************************************)
(* Model of pyoxidizer/src/starlark/python_resource.rs: the Starlark value *)
(* types wrapping Python resources (PythonSourceModule,                    *)
(* PythonBytecodeModule, PythonResourceData, PythonExtensionModule), their *)
(* TypedValue implementations, and the conversion                          *)
(* impl From<&PythonResource> for Value.                                   *)
(*                                                                         *)
(* Text is modelled by TLA+ strings (format! is string concatenation),     *)
(* byte payloads by sequences of bytes, Rust enums by tagged records.      *)
(***************************************************************************)
EXTENDS Naturals, Sequences, FiniteSets, TLC

VARIABLES resource, value, origin, last, aborted, tiebreak

vars == <<resource, value, origin, last, aborted, tiebreak>>

(***************************************************************************)
(* Bounded input domains.                                                  *)
(***************************************************************************)
\* longest byte payload (source / data) the engine hands over
MaxLen == 1

Names == {"", "pkg.mod"}

RECURSIVE Payload(_)
Payload(n) == IF n = 0 THEN <<>> ELSE Append(Payload(n - 1), 0)

Payloads == {Payload(n) : n \in 0..MaxLen}

\* the three optimization levels a bytecode request carries
OptLevels == {0, 1, 2}

\* attribute names probed by the evaluator: every allowlisted name, the
\* withheld ones ("source", "data"), and names no kind knows
Attributes ==
    {"name", "is_package", "optimize_level", "package", "source", "data", ""}

(***************************************************************************)
(* crate::py_packaging::resource::PythonResource, as destructured by the   *)
(* conversion (lines 292-346).                                             *)
(***************************************************************************)
ModuleSourceResources ==
    {[tag |-> "ModuleSource", name |-> n, source |-> s, is_package |-> p] :
        n \in Names, s \in Payloads, p \in BOOLEAN}

ModuleBytecodeRequestResources ==
    {[tag |-> "ModuleBytecodeRequest", name |-> nsp[1], source |-> nsp[2],
      optimize_level |-> o, is_package |-> nsp[3]] :
        nsp \in Names \X Payloads \X BOOLEAN, o \in OptLevels}

ModuleBytecodeResources ==
    {[tag |-> "ModuleBytecode", name |-> n] : n \in Names}

ResourceResources ==
    {[tag |-> "Resource", package |-> p, name |-> n, data |-> d] :
        p \in Names, n \in Names, d \in Payloads}

ExtensionModuleDatas == {[name |-> n] : n \in Names}

ExtensionModuleResources ==
    {[tag |-> t, em |-> em] :
        t \in {"ExtensionModuleDynamicLibrary", "ExtensionModuleStaticallyLinked"},
        em \in ExtensionModuleDatas}

PythonResource ==
    ModuleSourceResources \cup ModuleBytecodeRequestResources
        \cup ModuleBytecodeResources \cup ResourceResources
        \cup ExtensionModuleResources

\* standalone_distribution::ExtensionModule, of which only `module` is read
DistributionExtensionModules == {[module |-> n] : n \in Names}

NoResource == [tag |-> "None"]
NoValue == [type |-> "None"]
None == [none |-> TRUE]

(***************************************************************************)
(* Results of the capability operations.                                   *)
(***************************************************************************)
StringValue(s) == [ok |-> TRUE, ty |-> "string", s |-> s]
BoolValue(b) == [ok |-> TRUE, ty |-> "bool", b |-> b]
IntValue(i) == [ok |-> TRUE, ty |-> "int", i |-> i]

OperationNotSupported(op, left, right) ==
    [ok |-> FALSE, err |-> "OperationNotSupported", op |-> op, left |-> left,
     right |-> right]

(***************************************************************************)
(* PythonSourceModule (lines 19-78).                                       *)
(***************************************************************************)
PythonSourceModule(module) == [type |-> "PythonSourceModule", module |-> module]

PythonSourceModule_to_str(self) ==
    "PythonSourceModule<name=" \o self.module.name \o ">"

PythonSourceModule_to_repr(self) == PythonSourceModule_to_str(self)

PythonSourceModule_get_type(self) == "PythonSourceModule"

\* faulty variant: truthiness taken from the name, an empty name being falsy
PythonSourceModule_to_bool_by_name(self) == self.module.name # ""

PythonSourceModule_to_bool(self) == TRUE

PythonSourceModule_get_attr(self, attribute) ==
    CASE attribute = "name" -> StringValue(self.module.name)
      [] attribute = "is_package" -> BoolValue(self.module.is_package)
      [] OTHER -> OperationNotSupported("." \o attribute, "PythonSourceModule", None)

PythonSourceModule_has_attr(self, attribute) ==
    CASE attribute = "name" -> TRUE
      [] attribute = "is_package" -> TRUE
      [] OTHER -> FALSE

(***************************************************************************)
(* PythonBytecodeModule (lines 80-148).                                    *)
(***************************************************************************)
PythonBytecodeModule(module) == [type |-> "PythonBytecodeModule", module |-> module]

\* {:?} of BytecodeOptimizationLevel prints the variant name
PythonBytecodeModule_to_str(self) ==
    "PythonBytecodeModule<name=" \o self.module.name \o "; level="
        \o self.module.optimize_level \o ">"

PythonBytecodeModule_to_repr(self) == PythonBytecodeModule_to_str(self)

PythonBytecodeModule_get_type(self) == "PythonBytecodeModule"

PythonBytecodeModule_to_bool(self) == TRUE

\* faulty variant: the arm of Two repeats the number of One
OptimizeLevelInt_two_as_one(level) ==
    CASE level = "Zero" -> 0
      [] level = "One" -> 1
      [] level = "Two" -> 1

OptimizeLevelInt(level) ==
    CASE level = "Zero" -> 0
      [] level = "One" -> 1
      [] level = "Two" -> 2

\* faulty variant: the error names the type the arm was copied from
PythonBytecodeModule_get_attr_wrong_left(self, attribute) ==
    CASE attribute = "name" -> StringValue(self.module.name)
      [] attribute = "optimize_level" ->
            IntValue(CASE self.module.optimize_level = "Zero" -> 0
                       [] self.module.optimize_level = "One" -> 1
                       [] self.module.optimize_level = "Two" -> 2)
      [] attribute = "is_package" -> BoolValue(self.module.is_package)
      [] OTHER -> OperationNotSupported("." \o attribute, "PythonSourceModule", None)

PythonBytecodeModule_get_attr(self, attribute) ==
    CASE attribute = "name" -> StringValue(self.module.name)
      [] attribute = "optimize_level" ->
            IntValue(OptimizeLevelInt(self.module.optimize_level))
      [] attribute = "is_package" -> BoolValue(self.module.is_package)
      [] OTHER -> OperationNotSupported("." \o attribute, "PythonBytecodeModule", None)

PythonBytecodeModule_has_attr(self, attribute) ==
    CASE attribute = "name" -> TRUE
      [] attribute = "optimize_level" -> TRUE
      [] attribute = "is_package" -> TRUE
      [] OTHER -> FALSE

(***************************************************************************)
(* PythonResourceData (lines 150-210).                                     *)
(***************************************************************************)
PythonResourceData(data) == [type |-> "PythonResourceData", data |-> data]

PythonResourceData_to_str(self) ==
    "PythonResourceData<package=" \o self.data.package \o ", name="
        \o self.data.name \o ">"

PythonResourceData_to_repr(self) == PythonResourceData_to_str(self)

PythonResourceData_get_type(self) == "PythonResourceData"

PythonResourceData_to_bool(self) == TRUE

\* faulty variant: "package" reads the name field
PythonResourceData_get_attr_package_is_name(self, attribute) ==
    CASE attribute = "package" -> StringValue(self.data.name)
      [] attribute = "name" -> StringValue(self.data.name)
      [] OTHER -> OperationNotSupported("." \o attribute, "PythonResourceData", None)

PythonResourceData_get_attr(self, attribute) ==
    CASE attribute = "package" -> StringValue(self.data.package)
      [] attribute = "name" -> StringValue(self.data.name)
      [] OTHER -> OperationNotSupported("." \o attribute, "PythonResourceData", None)

\* faulty variant: has_attr announces the raw data, which get_attr does not expose
PythonResourceData_has_attr_with_data(self, attribute) ==
    CASE attribute = "package" -> TRUE
      [] attribute = "name" -> TRUE
      [] attribute = "data" -> TRUE
      [] OTHER -> FALSE

PythonResourceData_has_attr(self, attribute) ==
    CASE attribute = "package" -> TRUE
      [] attribute = "name" -> TRUE
      [] OTHER -> FALSE

(***************************************************************************)
(* PythonExtensionModuleFlavor and PythonExtensionModule (lines 212-288).  *)
(***************************************************************************)
Distribution(m) == [flavor |-> "Distribution", m |-> m]
StaticallyLinked(m) == [flavor |-> "StaticallyLinked", m |-> m]
DynamicLibrary(m) == [flavor |-> "DynamicLibrary", m |-> m]

PythonExtensionModuleFlavor_name(self) ==
    CASE self.flavor = "Distribution" -> self.m.module
      [] self.flavor = "StaticallyLinked" -> self.m.name
      [] self.flavor = "DynamicLibrary" -> self.m.name

PythonExtensionModule(em) == [type |-> "PythonExtensionModule", em |-> em]

PythonExtensionModule_to_str(self) ==
    "PythonExtensionModule<name=" \o PythonExtensionModuleFlavor_name(self.em) \o ">"

PythonExtensionModule_to_repr(self) == PythonExtensionModule_to_str(self)

PythonExtensionModule_get_type(self) == "PythonExtensionModule"

PythonExtensionModule_to_bool(self) == TRUE

PythonExtensionModule_get_attr(self, attribute) ==
    CASE attribute = "name" -> StringValue(PythonExtensionModuleFlavor_name(self.em))
      [] OTHER -> OperationNotSupported("." \o attribute, "PythonExtensionModule", None)

PythonExtensionModule_has_attr(self, attribute) ==
    CASE attribute = "name" -> TRUE
      [] OTHER -> FALSE

(***************************************************************************)
(* Dynamic dispatch of the TypedValue methods on the concrete type.        *)
(***************************************************************************)
to_str(self) ==
    CASE self.type = "PythonSourceModule" -> PythonSourceModule_to_str(self)
      [] self.type = "PythonBytecodeModule" -> PythonBytecodeModule_to_str(self)
      [] self.type = "PythonResourceData" -> PythonResourceData_to_str(self)
      [] self.type = "PythonExtensionModule" -> PythonExtensionModule_to_str(self)

to_repr(self) ==
    CASE self.type = "PythonSourceModule" -> PythonSourceModule_to_repr(self)
      [] self.type = "PythonBytecodeModule" -> PythonBytecodeModule_to_repr(self)
      [] self.type = "PythonResourceData" -> PythonResourceData_to_repr(self)
      [] self.type = "PythonExtensionModule" -> PythonExtensionModule_to_repr(self)

get_type(self) ==
    CASE self.type = "PythonSourceModule" -> PythonSourceModule_get_type(self)
      [] self.type = "PythonBytecodeModule" -> PythonBytecodeModule_get_type(self)
      [] self.type = "PythonResourceData" -> PythonResourceData_get_type(self)
      [] self.type = "PythonExtensionModule" -> PythonExtensionModule_get_type(self)

to_bool(self) ==
    CASE self.type = "PythonSourceModule" -> PythonSourceModule_to_bool(self)
      [] self.type = "PythonBytecodeModule" -> PythonBytecodeModule_to_bool(self)
      [] self.type = "PythonResourceData" -> PythonResourceData_to_bool(self)
      [] self.type = "PythonExtensionModule" -> PythonExtensionModule_to_bool(self)

get_attr(self, attribute) ==
    CASE self.type = "PythonSourceModule" ->
            PythonSourceModule_get_attr(self, attribute)
      [] self.type = "PythonBytecodeModule" ->
            PythonBytecodeModule_get_attr(self, attribute)
      [] self.type = "PythonResourceData" ->
            PythonResourceData_get_attr(self, attribute)
      [] self.type = "PythonExtensionModule" ->
            PythonExtensionModule_get_attr(self, attribute)

has_attr(self, attribute) ==
    CASE self.type = "PythonSourceModule" ->
            PythonSourceModule_has_attr(self, attribute)
      [] self.type = "PythonBytecodeModule" ->
            PythonBytecodeModule_has_attr(self, attribute)
      [] self.type = "PythonResourceData" ->
            PythonResourceData_has_attr(self, attribute)
      [] self.type = "PythonExtensionModule" ->
            PythonExtensionModule_has_attr(self, attribute)

(***************************************************************************)
(* The capabilities every kind hands to not_supported! (lines 27-29,       *)
(* 88-90, 158-160, 243-245).  The macro is expanded by the starlark crate; *)
(* what this file fixes is which capabilities are rejected and that the    *)
(* rejection returns without touching the record.  The error variant the   *)
(* expansion returns is not decided here and is left opaque.               *)
(***************************************************************************)
not_supported(type) ==
    CASE type = "PythonSourceModule" ->
            {"binop", "dir_attr", "function", "get_hash", "indexable",
             "iterable", "sequence", "set_attr", "to_int"}
      [] type = "PythonBytecodeModule" ->
            {"binop", "dir_attr", "function", "get_hash", "indexable",
             "iterable", "sequence", "set_attr", "to_int"}
      [] type = "PythonResourceData" ->
            {"binop", "dir_attr", "function", "get_hash", "indexable",
             "iterable", "sequence", "set_attr", "to_int"}
      [] type = "PythonExtensionModule" ->
            {"binop", "dir_attr", "function", "get_hash", "indexable",
             "iterable", "sequence", "set_attr", "to_int"}

Capabilities ==
    {"binop", "dir_attr", "function", "get_hash", "indexable", "iterable",
     "sequence", "set_attr", "to_int"}

Rejected(capability) == [ok |-> FALSE, rejected |-> capability]

\* faulty variant: set_attr assigns the name of a source module before rejecting
set_attr_assigning(self, attribute, new_value) ==
    IF self.type = "PythonSourceModule" /\ attribute = "name"
    THEN [self EXCEPT !.module.name = new_value]
    ELSE self

\* set_attr(&mut self, attribute, new_value): the only rejected capability
\* that receives the value mutably; returns the value as it is afterwards
set_attr(self, attribute, new_value) == self

(***************************************************************************)
(* impl From<&PythonResource> for Value (lines 290-348).                   *)
(***************************************************************************)
\* BytecodeOptimizationLevel::from(i32), defined in py_packaging::resource
BytecodeOptimizationLevel_from(i) ==
    CASE i = 0 -> "Zero"
      [] i = 1 -> "One"
      [] i = 2 -> "Two"

Returned(v) == [panic |-> FALSE, value |-> v]
Panic(msg) == [panic |-> TRUE, msg |-> msg]

\* faulty variant: the dynamic-library arm builds the statically linked flavor
From_swapped_flavor(r) ==
    CASE r.tag = "ModuleSource" ->
            Returned(PythonSourceModule(
                [name |-> r.name, source |-> r.source,
                 is_package |-> r.is_package]))
      [] r.tag = "ModuleBytecodeRequest" ->
            Returned(PythonBytecodeModule(
                [name |-> r.name, source |-> r.source,
                 optimize_level |-> BytecodeOptimizationLevel_from(r.optimize_level),
                 is_package |-> r.is_package]))
      [] r.tag = "ModuleBytecode" -> Panic("not yet implemented")
      [] r.tag = "Resource" ->
            Returned(PythonResourceData(
                [package |-> r.package, name |-> r.name, data |-> r.data]))
      [] r.tag = "ExtensionModuleDynamicLibrary" ->
            Returned(PythonExtensionModule(StaticallyLinked(r.em)))
      [] r.tag = "ExtensionModuleStaticallyLinked" ->
            Returned(PythonExtensionModule(StaticallyLinked(r.em)))

\* faulty variant: the bytecode request arm panics as the compiled bytecode arm does
From_request_panics(r) ==
    CASE r.tag = "ModuleSource" ->
            Returned(PythonSourceModule(
                [name |-> r.name, source |-> r.source,
                 is_package |-> r.is_package]))
      [] r.tag = "ModuleBytecodeRequest" -> Panic("not yet implemented")
      [] r.tag = "ModuleBytecode" -> Panic("not yet implemented")
      [] r.tag = "Resource" ->
            Returned(PythonResourceData(
                [package |-> r.package, name |-> r.name, data |-> r.data]))
      [] r.tag = "ExtensionModuleDynamicLibrary" ->
            Returned(PythonExtensionModule(DynamicLibrary(r.em)))
      [] r.tag = "ExtensionModuleStaticallyLinked" ->
            Returned(PythonExtensionModule(StaticallyLinked(r.em)))

From(r) ==
    CASE r.tag = "ModuleSource" ->
            Returned(PythonSourceModule(
                [name |-> r.name, source |-> r.source,
                 is_package |-> r.is_package]))
      [] r.tag = "ModuleBytecodeRequest" ->
            Returned(PythonBytecodeModule(
                [name |-> r.name, source |-> r.source,
                 optimize_level |-> BytecodeOptimizationLevel_from(r.optimize_level),
                 is_package |-> r.is_package]))
      [] r.tag = "ModuleBytecode" -> Panic("not yet implemented")
      [] r.tag = "Resource" ->
            Returned(PythonResourceData(
                [package |-> r.package, name |-> r.name, data |-> r.data]))
      [] r.tag = "ExtensionModuleDynamicLibrary" ->
            Returned(PythonExtensionModule(DynamicLibrary(r.em)))
      [] r.tag = "ExtensionModuleStaticallyLinked" ->
            Returned(PythonExtensionModule(StaticallyLinked(r.em)))

\* every value the evaluator can hold: the conversions, and extension
\* modules of the distribution flavor, which are built directly
ConvertedValues == {From(r).value : r \in {q \in PythonResource : ~From(q).panic}}

DistributionValues ==
    {PythonExtensionModule(Distribution(m)) : m \in DistributionExtensionModules}

AllValues == ConvertedValues \cup DistributionValues

(***************************************************************************)
(* compare (lines 47-49, 111-113, 181-183, 263-265): every kind delegates  *)
(* to starlark's default_compare(self, other), which receives both         *)
(* operands as &dyn TypedValue.  None of the four wrappers implements      *)
(* PartialEq or Ord (lines 19, 80, 150, 235 derive Debug and Clone only),  *)
(* so the comparer can order two values only by what the TypedValue        *)
(* methods return and by which object it was handed: the type names first, *)
(* and between two values of one type either their to_repr text or their   *)
(* addresses.  Which of the two the linked starlark release uses is fixed  *)
(* per build and not by this file; `tiebreak` records it.                  *)
(***************************************************************************)
Tiebreaks == {"to_repr", "address"}

\* str::cmp on the texts the model uses: byte-wise lexicographic order
TextOrder == <<"", "One", "PythonBytecodeModule", "PythonExtensionModule",
               "PythonResourceData", "PythonSourceModule", "Two", "Zero",
               "pkg.mod">>

TextRank(t) == CHOOSE i \in DOMAIN TextOrder : TextOrder[i] = t

RECURSIVE cmp(_, _)
cmp(a, b) ==
    IF a = <<>> THEN "Equal"
    ELSE IF TextRank(Head(a)) < TextRank(Head(b)) THEN "Less"
    ELSE IF TextRank(Head(a)) > TextRank(Head(b)) THEN "Greater"
    ELSE cmp(Tail(a), Tail(b))

\* the variable parts of to_repr, in the order format! writes them; every
\* delimiter that follows a name sorts before the letters of a name
ReprParts(v) ==
    CASE v.type = "PythonSourceModule" -> <<v.module.name>>
      [] v.type = "PythonBytecodeModule" -> <<v.module.name, v.module.optimize_level>>
      [] v.type = "PythonResourceData" -> <<v.data.package, v.data.name>>
      [] v.type = "PythonExtensionModule" -> <<PythonExtensionModuleFlavor_name(v.em)>>

default_compare(v1, v2, same_object, v1_first, tb) ==
    IF get_type(v1) # get_type(v2)
    THEN cmp(<<get_type(v1)>>, <<get_type(v2)>>)
    ELSE IF tb = "to_repr"
    THEN IF to_repr(v1) = to_repr(v2) THEN "Equal"
         ELSE cmp(ReprParts(v1), ReprParts(v2))
    ELSE IF same_object THEN "Equal"
         ELSE IF v1_first THEN "Less" ELSE "Greater"

compare(self, other, same_object, self_first, tb) ==
    [ok |-> TRUE, ty |-> "ordering",
     ord |-> default_compare(self, other, same_object, self_first, tb)]

(***************************************************************************)
(* State.                                                                  *)
(*   resource  the domain record the engine holds (it may change or drop   *)
(*             it after a conversion)                                      *)
(*   value     the wrapped value the evaluator holds                       *)
(*   origin    the domain record `value` was converted from, as it was at  *)
(*             the conversion                                              *)
(*   last      the last operation and what it returned                     *)
(*   aborted   the process has panicked                                    *)
(***************************************************************************)
NoOp == [op |-> "none"]

Init ==
    /\ resource = NoResource
    /\ value = NoValue
    /\ origin = NoResource
    /\ last = NoOp
    /\ aborted = FALSE
    /\ tiebreak \in Tiebreaks

Live == ~aborted
Bound == Live /\ value # NoValue

\* Value::from(&resource)
Convert(r) ==
    /\ Live
    /\ resource' = r
    /\ origin' = r
    /\ last' = [op |-> "from", res |-> From(r)]
    /\ IF From(r).panic
       THEN aborted' = TRUE /\ value' = value
       ELSE aborted' = aborted /\ value' = From(r).value
    /\ UNCHANGED tiebreak

\* PythonExtensionModule { em: PythonExtensionModuleFlavor::Distribution(m) }
Construct(m) ==
    /\ Live
    /\ value' = PythonExtensionModule(Distribution(m))
    /\ origin' = NoResource
    /\ resource' = NoResource
    /\ last' = [op |-> "construct"]
    /\ UNCHANGED <<aborted, tiebreak>>

\* the engine rewrites the record it converted from
MutateResource(r) ==
    /\ Live
    /\ resource # NoResource
    /\ r.tag = resource.tag
    /\ r # resource
    /\ resource' = r
    /\ UNCHANGED <<value, origin, last, aborted, tiebreak>>

\* the engine drops the record it converted from
DropResource ==
    /\ Live
    /\ resource # NoResource
    /\ resource' = NoResource
    /\ UNCHANGED <<value, origin, last, aborted, tiebreak>>

ToStr ==
    /\ Bound
    /\ last' = [op |-> "to_str", res |-> to_str(value)]
    /\ UNCHANGED <<resource, value, origin, aborted, tiebreak>>

ToRepr ==
    /\ Bound
    /\ last' = [op |-> "to_repr", res |-> to_repr(value)]
    /\ UNCHANGED <<resource, value, origin, aborted, tiebreak>>

GetType ==
    /\ Bound
    /\ last' = [op |-> "get_type", res |-> get_type(value)]
    /\ UNCHANGED <<resource, value, origin, aborted, tiebreak>>

ToBool ==
    /\ Bound
    /\ last' = [op |-> "to_bool", res |-> to_bool(value)]
    /\ UNCHANGED <<resource, value, origin, aborted, tiebreak>>

\* value.compare(value): one object on both sides
CompareSelf ==
    /\ Bound
    /\ last' = [op |-> "compare", other |-> value, same_object |-> TRUE,
                res |-> compare(value, value, TRUE, FALSE, tiebreak)]
    /\ UNCHANGED <<resource, value, origin, aborted, tiebreak>>

\* the wrapped record as a function of its field names
Record(v) ==
    CASE v.type = "PythonSourceModule" -> v.module
      [] v.type = "PythonBytecodeModule" -> v.module
      [] v.type = "PythonResourceData" -> v.data
      [] v.type = "PythonExtensionModule" ->
            [flavor |-> v.em.flavor, name |-> PythonExtensionModuleFlavor_name(v.em)]

DifferingFields(v, w) == {f \in DOMAIN Record(v) : Record(v)[f] # Record(w)[f]}

\* the operands `value` is compared with: the values of its own type whose
\* record is identical or differs in one field, and one value of each
\* other type
Peers ==
    [v \in AllValues |->
        {w \in AllValues : w.type = v.type /\ Cardinality(DifferingFields(v, w)) <= 1}
            \cup {CHOOSE w \in AllValues : w.type = t :
                    t \in {x.type : x \in AllValues} \ {v.type}}]

\* value.compare(other) with another wrapped value, allocated before or
\* after `value`
CompareOther(other, self_first) ==
    /\ Bound
    /\ other \in Peers[value]
    /\ last' = [op |-> "compare", other |-> other, same_object |-> FALSE,
                res |-> compare(value, other, FALSE, self_first, tiebreak)]
    /\ UNCHANGED <<resource, value, origin, aborted, tiebreak>>

GetAttr(attribute) ==
    /\ Bound
    /\ last' = [op |-> "get_attr", attribute |-> attribute,
                has |-> has_attr(value, attribute),
                res |-> get_attr(value, attribute)]
    /\ UNCHANGED <<resource, value, origin, aborted, tiebreak>>

HasAttr(attribute) ==
    /\ Bound
    /\ last' = [op |-> "has_attr", attribute |-> attribute,
                res |-> has_attr(value, attribute)]
    /\ UNCHANGED <<resource, value, origin, aborted, tiebreak>>

\* a capability generated by not_supported! that takes &self
NotSupported(capability) ==
    /\ Bound
    /\ capability \in not_supported(get_type(value)) \ {"set_attr"}
    /\ last' = [op |-> capability, res |-> Rejected(capability)]
    /\ UNCHANGED <<resource, value, origin, aborted, tiebreak>>

\* value.set_attr(attribute, new_value)
SetAttr(attribute, new_value) ==
    /\ Bound
    /\ "set_attr" \in not_supported(get_type(value))
    /\ value' = set_attr(value, attribute, new_value)
    /\ last' = [op |-> "set_attr", attribute |-> attribute,
                res |-> Rejected("set_attr")]
    /\ UNCHANGED <<resource, origin, aborted, tiebreak>>

Next ==
    \/ \E r \in PythonResource : Convert(r)
    \/ \E m \in DistributionExtensionModules : Construct(m)
    \/ \E r \in PythonResource : MutateResource(r)
    \/ DropResource
    \/ ToStr
    \/ ToRepr
    \/ GetType
    \/ ToBool
    \/ CompareSelf
    \/ \E other \in AllValues, self_first \in BOOLEAN : CompareOther(other, self_first)
    \/ \E attribute \in Attributes : GetAttr(attribute)
    \/ \E attribute \in Attributes : HasAttr(attribute)
    \/ \E capability \in Capabilities : NotSupported(capability)
    \/ \E attribute \in Attributes, new_value \in Names : SetAttr(attribute, new_value)

Spec == Init /\ [][Next]_vars

(***************************************************************************)
(* Properties.                                                             *)
(***************************************************************************)
\* the attribute table of the interface: kind name -> attribute names
Allowlist(type) ==
    CASE type = "PythonSourceModule" -> {"name", "is_package"}
      [] type = "PythonBytecodeModule" -> {"name", "optimize_level", "is_package"}
      [] type = "PythonResourceData" -> {"package", "name"}
      [] type = "PythonExtensionModule" -> {"name"}

KindNames ==
    {"PythonSourceModule", "PythonBytecodeModule", "PythonResourceData",
     "PythonExtensionModule"}

LevelNumber == [Zero |-> 0, One |-> 1, Two |-> 2]

\* C1: for every kind and every attribute name, has_attr(name) is true if
\* and only if get_attr(name) succeeds
C1_HasIffGet ==
    /\ last.op = "get_attr" => (last.has <=> last.res.ok)
    /\ last.op = "has_attr" => (last.res <=> get_attr(value, last.attribute).ok)

C1_Witness ==
    /\ last.op = "get_attr"
    /\ value.type = "PythonBytecodeModule"
    /\ last.attribute = "source"
    /\ ~last.has

\* C2: for a name outside the kind's allowlist, has_attr is false and
\* get_attr fails with OperationNotSupported whose op is "." followed by the
\* name, whose left is the kind name get_type returns, and whose right is
\* absent
C2_UnknownAttribute ==
    (last.op = "get_attr" /\ last.attribute \notin Allowlist(value.type)) =>
        /\ ~last.has
        /\ ~last.res.ok
        /\ last.res.err = "OperationNotSupported"
        /\ last.res.op = "." \o last.attribute
        /\ last.res.left = get_type(value)
        /\ last.res.left \in KindNames
        /\ last.res.right = None

C2_Witness ==
    /\ last.op = "get_attr"
    /\ value.type = "PythonResourceData"
    /\ last.attribute = "data"
    /\ last.res.op = ".data"

\* the content an allowlisted attribute must have
C3_Expected(v, attribute) ==
    CASE v.type = "PythonSourceModule" /\ attribute = "name" ->
            [ty |-> "string", s |-> v.module.name]
      [] v.type = "PythonSourceModule" /\ attribute = "is_package" ->
            [ty |-> "bool", b |-> v.module.is_package]
      [] v.type = "PythonBytecodeModule" /\ attribute = "name" ->
            [ty |-> "string", s |-> v.module.name]
      [] v.type = "PythonBytecodeModule" /\ attribute = "optimize_level" ->
            [ty |-> "int", i |-> LevelNumber[v.module.optimize_level]]
      [] v.type = "PythonBytecodeModule" /\ attribute = "is_package" ->
            [ty |-> "bool", b |-> v.module.is_package]
      [] v.type = "PythonResourceData" /\ attribute = "package" ->
            [ty |-> "string", s |-> v.data.package]
      [] v.type = "PythonResourceData" /\ attribute = "name" ->
            [ty |-> "string", s |-> v.data.name]
      [] v.type = "PythonExtensionModule" /\ attribute = "name" ->
            [ty |-> "string",
             s |-> IF v.em.flavor = "Distribution" THEN v.em.m.module
                   ELSE v.em.m.name]

\* C3: for a name in the kind's allowlist, has_attr is true and get_attr
\* succeeds with a value of the declared type holding the corresponding
\* field of the wrapped record (for an extension module the name of its
\* flavor: `module` for Distribution, `name` for the other two)
C3_AllowedAttribute ==
    (last.op = "get_attr" /\ last.attribute \in Allowlist(value.type)) =>
        /\ last.has
        /\ last.res.ok
        /\ last.res.ty = C3_Expected(value, last.attribute).ty
        /\ [f \in DOMAIN C3_Expected(value, last.attribute) |-> last.res[f]]
                = C3_Expected(value, last.attribute)

C3_Witness ==
    /\ last.op = "get_attr"
    /\ value.type = "PythonExtensionModule"
    /\ value.em.flavor = "Distribution"
    /\ last.attribute = "name"
    /\ last.res.ok
    /\ last.res.s = "pkg.mod"

\* C4: the conversion maps each convertible resource to one wrapped value
\* whose kind is fixed by the variant and whose fields are those of the
\* resource; a dynamic-library extension is tagged DynamicLibrary, a
\* statically linked one StaticallyLinked, and Distribution is never
\* produced
C4_Conversion ==
    (last.op = "from" /\ origin.tag # "ModuleBytecode") =>
        /\ ~last.res.panic
        /\ value = last.res.value
        /\ CASE origin.tag = "ModuleSource" ->
                  /\ get_type(value) = "PythonSourceModule"
                  /\ value.module.name = origin.name
                  /\ value.module.source = origin.source
                  /\ value.module.is_package = origin.is_package
                  /\ get_attr(value, "name") = StringValue(origin.name)
                  /\ get_attr(value, "is_package") = BoolValue(origin.is_package)
             [] origin.tag = "ModuleBytecodeRequest" ->
                  /\ get_type(value) = "PythonBytecodeModule"
                  /\ value.module.name = origin.name
                  /\ value.module.source = origin.source
                  /\ value.module.is_package = origin.is_package
                  /\ get_attr(value, "name") = StringValue(origin.name)
                  /\ get_attr(value, "is_package") = BoolValue(origin.is_package)
             [] origin.tag = "Resource" ->
                  /\ get_type(value) = "PythonResourceData"
                  /\ value.data.package = origin.package
                  /\ value.data.name = origin.name
                  /\ value.data.data = origin.data
                  /\ get_attr(value, "package") = StringValue(origin.package)
                  /\ get_attr(value, "name") = StringValue(origin.name)
             [] origin.tag = "ExtensionModuleDynamicLibrary" ->
                  /\ get_type(value) = "PythonExtensionModule"
                  /\ value.em.flavor = "DynamicLibrary"
                  /\ value.em.m = origin.em
                  /\ get_attr(value, "name") = StringValue(origin.em.name)
             [] origin.tag = "ExtensionModuleStaticallyLinked" ->
                  /\ get_type(value) = "PythonExtensionModule"
                  /\ value.em.flavor = "StaticallyLinked"
                  /\ value.em.m = origin.em
                  /\ get_attr(value, "name") = StringValue(origin.em.name)

C4_Witness ==
    /\ last.op = "from"
    /\ origin = [tag |-> "ModuleSource", name |-> "pkg.mod", source |-> <<>>,
                 is_package |-> TRUE]
    /\ get_attr(value, "name") = StringValue("pkg.mod")
    /\ get_attr(value, "is_package") = BoolValue(TRUE)
    /\ to_str(value) = "PythonSourceModule<name=pkg.mod>"

\* C5: a bytecode request of level 0, 1 or 2 gives a value whose
\* optimize_level attribute is 0, 1 or 2 respectively, and the attribute of
\* a bytecode module value is never another integer
C5_OptimizeLevel ==
    (last.op = "get_attr" /\ value.type = "PythonBytecodeModule"
        /\ last.attribute = "optimize_level") =>
        /\ last.res.ok
        /\ last.res.ty = "int"
        /\ last.res.i \in {0, 1, 2}
        /\ origin.tag = "ModuleBytecodeRequest" => last.res.i = origin.optimize_level

C5_Witness ==
    /\ last.op = "get_attr"
    /\ last.attribute = "optimize_level"
    /\ origin.tag = "ModuleBytecodeRequest"
    /\ origin.optimize_level = 2
    /\ last.res = IntValue(2)

\* C6: converting an already compiled bytecode module returns neither a
\* value nor an error but panics, and no other variant does
C6_Unconvertible ==
    /\ (last.op = "from" /\ origin.tag = "ModuleBytecode") =>
            /\ aborted
            /\ last.res.panic
            /\ "value" \notin DOMAIN last.res
            /\ "err" \notin DOMAIN last.res
    /\ (last.op = "from" /\ origin.tag # "ModuleBytecode") =>
            /\ ~aborted
            /\ ~last.res.panic
    /\ aborted => (last.op = "from" /\ origin.tag = "ModuleBytecode")

C6_Witness ==
    /\ aborted
    /\ last.op = "from"
    /\ origin.tag = "ModuleBytecode"

\* C7: two values of one kind built from identical records compare equal,
\* and two built from records that differ in any field, shown by to_str or
\* not, compare unequal
C7_StructuralEquality ==
    (last.op = "compare" /\ ~last.same_object /\ last.other.type = value.type) =>
        /\ Record(last.other) = Record(value) => last.res.ord = "Equal"
        /\ Record(last.other) # Record(value) => last.res.ord # "Equal"

\* C9: to_bool is true for every wrapped value, whatever its fields hold
C9_Truthy ==
    last.op = "to_bool" => last.res = TRUE

C9_Witness ==
    /\ last.op = "to_bool"
    /\ value.type = "PythonSourceModule"
    /\ value.module.name = ""
    /\ last.res = TRUE

\* C10: whatever operations ran on a converted value, and whatever the
\* engine did to the record it was converted from, the wrapped record is the
\* one the conversion built and every attribute reads as it did then
C10_Unchanged ==
    (value # NoValue /\ origin # NoResource /\ origin.tag # "ModuleBytecode") =>
        /\ value = From(origin).value
        /\ \A attribute \in Attributes :
                get_attr(value, attribute) = get_attr(From(origin).value, attribute)
        /\ to_str(value) = to_str(From(origin).value)

C10_Witness ==
    /\ value # NoValue
    /\ origin.tag = "ModuleSource"
    /\ resource # NoResource
    /\ resource.name # origin.name
    /\ last.op = "set_attr"
    /\ last.attribute = "name"

====
